---- MODULE Spec2Model ----
(***************************************************************************)
(* Antigravity-Manager: account selection (tier / quota / health ranking   *)
(* with capability filtering), the credential cipher and its serde hooks,  *)
(* and the legacy import.                                                  *)
(*                                                                         *)
(* Rust strings are modelled as what they are: sequences of UTF-8 bytes    *)
(* (numbers 0..255).  Option<T> is a sequence of length 0 (None) or 1      *)
(* (Some).  Result<T, E> is a record [ok |-> BOOLEAN, val |-> ...].        *)
(***************************************************************************)
EXTENDS Integers, Sequences, FiniteSets, TLC

VARIABLES
    \* ---- selection engine (proxy/tests/ultra_priority_tests.rs)
    pool,          \* Vec<ProxyToken>, the account pool handed to the selection
    target_model,  \* the model of the request being served
    now,           \* the wall clock at the time of the selection
    filtered,      \* output of filter_tokens_by_capability
    sorted,        \* filtered, after sort_by(compare_tokens_for_model)
    selPc,         \* "build" | "done"
    \* ---- tier classification on its own
    tierLabel,     \* Option<String>: a subscription_tier label
    tierOut,       \* Option<int>: tier_priority(tierLabel) once computed
    \* ---- credential cipher (utils/crypto.rs)
    machine_uid,   \* Option<String>: what machine_uid::get() returns, None on error
    secret,        \* the in-memory value handed to the cipher
    persisted,     \* Option<String>: the string in persisted state
    wrote,         \* the operations that produced persisted, oldest first
    prev,          \* Option<String>: persisted before the last re-serialization
    loaded,        \* Option<Result<String>>: what reading persisted returned
    readBy,        \* the operation that produced loaded
    derived,       \* the keys get_encryption_key returned in this process, oldest first
    \* ---- legacy import (modules/migration.rs, import_from_v1)
    home_dir,      \* Option<PathBuf>: what dirs::home_dir() returns
    index_exists,  \* index_exists[i]: v1_dir.join(index_files[i]).exists()
    impPc,         \* "start" | "files" | "entries" | "done"
    idx,           \* position in index_files
    todo,          \* entries of the current index still to be visited
    found_index,   \* the local of that name
    imported_accounts, \* Vec<Account>: the local of that name
    accounts,      \* the credential pool: records with distinct email
    impResult,     \* Option<Result<Vec<Account>, String>>
    trace,         \* one record per visited entry: what was read and called
    \* ---- live-format import (extract_refresh_token_from_file)
    db,            \* the key-value source at db_path
    extracted,     \* Option<Result<String, String>>
    queried        \* keys of ItemTable queried so far, in order

selVars == <<pool, target_model, now, filtered, sorted, selPc>>
tierVars == <<tierLabel, tierOut>>
cipherVars == <<machine_uid, secret, persisted, wrote, prev, loaded, readBy>>
procVars == <<derived>>
importVars == <<home_dir, index_exists, impPc, idx, todo, found_index,
                imported_accounts, accounts, impResult, trace>>
extractVars == <<db, extracted, queried>>
vars == <<selVars, tierVars, cipherVars, procVars, importVars, extractVars>>

(***************************************************************************)
(* Strings, Option, Ordering                                               *)
(***************************************************************************)
None == <<>>
Some(v) == <<v>>
Unwrap(o) == o[1]
UnwrapOr(o, d) == IF Len(o) = 1 THEN o[1] ELSE d

\* str::starts_with
StartsWith(s, prefix) ==
    /\ Len(prefix) <= Len(s)
    /\ SubSeq(s, 1, Len(prefix)) = prefix

\* str::contains(&str): the pattern occurs at some offset
Contains(s, pat) ==
    \E i \in 0..(Len(s) - Len(pat)) : SubSeq(s, i + 1, i + Len(pat)) = pat

\* str::to_lowercase on ASCII text: 'A'..'Z' (65..90) map to 'a'..'z'
ToLowercase(s) ==
    [i \in 1..Len(s) |-> IF s[i] >= 65 /\ s[i] <= 90 THEN s[i] + 32 ELSE s[i]]

\* Ord::cmp on integers
Cmp(x, y) == IF x < y THEN "Less" ELSE IF x > y THEN "Greater" ELSE "Equal"

\* the literals of tier_priority: "ultra", "pro", "free"
StrUltra == <<117, 108, 116, 114, 97>>
StrPro == <<112, 114, 111>>
StrFree == <<102, 114, 101, 101>>

(***************************************************************************)
(* Selection engine                                                        *)
(***************************************************************************)

\* A plausible slip: "pro" tested before "ultra".
tier_priority_ProFirst(tier) ==
    LET t == ToLowercase(UnwrapOr(tier, <<>>))
    IN  IF Contains(t, StrPro) THEN 1
        ELSE IF Contains(t, StrUltra) THEN 0
        ELSE IF Contains(t, StrFree) THEN 2
        ELSE 3

\* the closure tier_priority of compare_tokens_for_model
tier_priority(tier) ==
    LET t == ToLowercase(UnwrapOr(tier, <<>>))
    IN  IF Contains(t, StrUltra) THEN 0
        ELSE IF Contains(t, StrPro) THEN 1
        ELSE IF Contains(t, StrFree) THEN 2
        ELSE 3

\* A plausible slip: quota compared before the subscription tier.
compare_tokens_QuotaFirst(a, b, target) ==
    LET quota_cmp == Cmp(UnwrapOr(b.remaining_quota, 0), UnwrapOr(a.remaining_quota, 0))
        tier_cmp == Cmp(tier_priority(a.subscription_tier),
                        tier_priority(b.subscription_tier))
    IN  IF quota_cmp # "Equal" THEN quota_cmp ELSE tier_cmp

\* compare_tokens_for_model(a, b, _target_model): the target model is unused.
\* Health scores are finite numbers (tenths here), for which partial_cmp is
\* a total comparison.
compare_tokens_for_model(a, b, target) ==
    LET tier_cmp == Cmp(tier_priority(a.subscription_tier),
                        tier_priority(b.subscription_tier))
        quota_a == UnwrapOr(a.remaining_quota, 0)
        quota_b == UnwrapOr(b.remaining_quota, 0)
        quota_cmp == Cmp(quota_b, quota_a)
        health_cmp == Cmp(b.health_score, a.health_score)
    IN  IF tier_cmp # "Equal" THEN tier_cmp
        ELSE IF quota_cmp # "Equal" THEN quota_cmp
        ELSE IF health_cmp # "Equal" THEN health_cmp
        ELSE "Equal"

\* A plausible slip: the filter keeps every record.
filter_tokens_KeepAll(tokens, target) == tokens

\* filter_tokens_by_capability: into_iter().filter(..).collect() keeps the order
filter_tokens_by_capability(tokens, target) ==
    LET Keep(t) == target \in DOMAIN t.model_quotas
    IN  SelectSeq(tokens, Keep)

\* slice::sort_by is a stable sort: x goes before the first element that is
\* strictly greater than it, so equal elements keep their input order.
RECURSIVE InsertSorted(_, _, _)
InsertSorted(x, s, target) ==
    IF s = <<>> THEN <<x>>
    ELSE IF compare_tokens_for_model(Head(s), x, target) = "Greater" THEN <<x>> \o s
    ELSE <<Head(s)>> \o InsertSorted(x, Tail(s), target)

RECURSIVE SortFrom(_, _, _)
SortFrom(done, rest, target) ==
    IF rest = <<>> THEN done
    ELSE SortFrom(InsertSorted(Head(rest), done, target), Tail(rest), target)

sort_tokens_for_model(tokens, target) == SortFrom(<<>>, tokens, target)

\* ---- the inputs
MaxPool == 2

Models == {"claude-opus-4-6", "claude-sonnet-4-5"}
TargetModels == Models \cup {"unknown-model"}
Times == {100}

\* "ULTRA", "pro", and no label
TokenTiers == {None, Some(<<85, 76, 84, 82, 65>>), Some(<<112, 114, 111>>)}

\* per-model quota maps: only opus, only sonnet, or both
ModelQuotaMaps ==
    { [m \in {"claude-opus-4-6"} |-> 20],
      [m \in {"claude-opus-4-6"} |-> 80],
      [m \in {"claude-sonnet-4-5"} |-> 20],
      [m \in Models |-> 20] }

\* the i-th account key: "a@", "b@", ...
EmailOf(i) == <<96 + i, 64>>

\* the ProxyToken literal of create_test_token, every field free
ProxyToken(email, tier, health, quota, blocked_until, mq) ==
    [account_id |-> email,
     email |-> email,
     subscription_tier |-> tier,
     remaining_quota |-> quota,
     health_score |-> health,
     validation_blocked_until |-> blocked_until,
     model_quotas |-> mq]

InitSelect ==
    /\ pool = <<>>
    /\ target_model = ""
    /\ now = 0
    /\ filtered = <<>>
    /\ sorted = <<>>
    /\ selPc = "build"
    /\ tierLabel = None
    /\ tierOut = None
    /\ machine_uid = None
    /\ secret = <<>>
    /\ persisted = None
    /\ wrote = <<>>
    /\ prev = None
    /\ loaded = None
    /\ readBy = ""
    /\ home_dir = None
    /\ index_exists = <<FALSE, FALSE>>
    /\ impPc = "idle"
    /\ idx = 0
    /\ todo = 0
    /\ found_index = FALSE
    /\ imported_accounts = <<>>
    /\ accounts = {}
    /\ impResult = None
    /\ trace = <<>>
    /\ db = [exists |-> FALSE, opens |-> FALSE, new |-> None, old |-> None]
    /\ extracted = None
    /\ queried = <<>>
    /\ derived = <<>>

\* one more account in the pool (vec![...] of the tests)
AddAccount ==
    /\ selPc = "build"
    /\ Len(pool) < MaxPool
    /\ \E tier \in TokenTiers, health \in {5, 10}, quota \in {None, Some(50)},
          blocked_until \in {0, 200}, mq \in ModelQuotaMaps :
          pool' = Append(pool, ProxyToken(EmailOf(Len(pool) + 1), tier, health,
                                          quota, blocked_until, mq))
    /\ UNCHANGED <<target_model, now, filtered, sorted, selPc, tierVars, cipherVars,
                   procVars, importVars, extractVars>>

\* select: filter_tokens_by_capability, then sort_by(compare_tokens_for_model)
Select ==
    /\ selPc = "build"
    /\ \E m \in TargetModels, t \in Times :
          /\ target_model' = m
          /\ now' = t
          /\ filtered' = filter_tokens_by_capability(pool, m)
          /\ sorted' = sort_tokens_for_model(filter_tokens_by_capability(pool, m), m)
    /\ selPc' = "done"
    /\ UNCHANGED <<pool, tierVars, cipherVars, procVars, importVars, extractVars>>

(***************************************************************************)
(* Tier classification on its own: labels are built from fragments.        *)
(***************************************************************************)
MaxParts == 2

\* "ULTRA", "ultra", "Pro", "pro", "FREE", "free", "-", "x", "ultr", "ree"
TierFragments ==
    { <<85, 76, 84, 82, 65>>,
      <<117, 108, 116, 114, 97>>,
      <<80, 114, 111>>,
      <<112, 114, 111>>,
      <<70, 82, 69, 69>>,
      <<102, 114, 101, 101>>,
      <<45>>,
      <<120>>,
      <<117, 108, 116, 114>>,
      <<114, 101, 101>> }

RECURSIVE LabelsOf(_)
LabelsOf(n) ==
    IF n = 0 THEN {<<>>}
    ELSE LabelsOf(n - 1) \cup {l \o f : l \in LabelsOf(n - 1), f \in TierFragments}

\* subscription_tier: Option<String>
TierLabels == {None} \cup {Some(l) : l \in LabelsOf(MaxParts)}

InitTier ==
    /\ tierLabel \in TierLabels
    /\ tierOut = None
    /\ pool = <<>>
    /\ target_model = ""
    /\ now = 0
    /\ filtered = <<>>
    /\ sorted = <<>>
    /\ selPc = "idle"
    /\ machine_uid = None
    /\ secret = <<>>
    /\ persisted = None
    /\ wrote = <<>>
    /\ prev = None
    /\ loaded = None
    /\ readBy = ""
    /\ home_dir = None
    /\ index_exists = <<FALSE, FALSE>>
    /\ impPc = "idle"
    /\ idx = 0
    /\ todo = 0
    /\ found_index = FALSE
    /\ imported_accounts = <<>>
    /\ accounts = {}
    /\ impResult = None
    /\ trace = <<>>
    /\ db = [exists |-> FALSE, opens |-> FALSE, new |-> None, old |-> None]
    /\ extracted = None
    /\ queried = <<>>
    /\ derived = <<>>

\* tier_priority(&token.subscription_tier)
Classify ==
    /\ tierOut = None
    /\ tierOut' = Some(tier_priority(tierLabel))
    /\ UNCHANGED <<tierLabel, selVars, cipherVars, procVars, importVars, extractVars>>

NextSelect == AddAccount \/ Select

SpecSelect == InitSelect /\ [][NextSelect]_vars

NextTier == Classify

SpecTier == InitTier /\ [][NextTier]_vars

(***************************************************************************)
(* Credential cipher (utils/crypto.rs)                                     *)
(***************************************************************************)
Ok(v) == [ok |-> TRUE, val |-> v, err |-> ""]
Err(e) == [ok |-> FALSE, val |-> <<>>, err |-> e]

\* b"antigravsalt"
FIXED_NONCE == <<97, 110, 116, 105, 103, 114, 97, 118, 115, 97, 108, 116>>
\* "ag_enc_"
ENCRYPTED_PREFIX == <<97, 103, 95, 101, 110, 99, 95>>
\* "default"
DefaultDeviceId == <<100, 101, 102, 97, 117, 108, 116>>

\* base64 STANDARD alphabet: A-Z a-z 0-9 + /, padded with =
B64Char(v) ==
    IF v < 26 THEN 65 + v
    ELSE IF v < 52 THEN 97 + (v - 26)
    ELSE IF v < 62 THEN 48 + (v - 52)
    ELSE IF v = 62 THEN 43
    ELSE 47

\* the 6-bit value of a symbol, -1 for a byte outside the alphabet
B64Val(c) ==
    IF c >= 65 /\ c <= 90 THEN c - 65
    ELSE IF c >= 97 /\ c <= 122 THEN c - 97 + 26
    ELSE IF c >= 48 /\ c <= 57 THEN c - 48 + 52
    ELSE IF c = 43 THEN 62
    ELSE IF c = 47 THEN 63
    ELSE -1

B64Pad == 61

\* general_purpose::STANDARD.encode
RECURSIVE Base64Encode(_)
Base64Encode(bytes) ==
    IF Len(bytes) = 0 THEN <<>>
    ELSE IF Len(bytes) = 1 THEN
        LET n == bytes[1] * 65536
        IN  <<B64Char(n \div 262144), B64Char((n \div 4096) % 64), B64Pad, B64Pad>>
    ELSE IF Len(bytes) = 2 THEN
        LET n == bytes[1] * 65536 + bytes[2] * 256
        IN  <<B64Char(n \div 262144), B64Char((n \div 4096) % 64),
              B64Char((n \div 64) % 64), B64Pad>>
    ELSE
        LET n == bytes[1] * 65536 + bytes[2] * 256 + bytes[3]
        IN  <<B64Char(n \div 262144), B64Char((n \div 4096) % 64),
              B64Char((n \div 64) % 64), B64Char(n % 64)>>
            \o Base64Encode(SubSeq(bytes, 4, Len(bytes)))

\* the groups of four symbols of a padded base64 text; only the last group
\* may be padded, and its unused low bits must be zero (canonical)
RECURSIVE Base64DecodeGroups(_)
Base64DecodeGroups(text) ==
    IF Len(text) = 0 THEN Ok(<<>>)
    ELSE
        LET v1 == B64Val(text[1])
            v2 == B64Val(text[2])
            v3 == B64Val(text[3])
            v4 == B64Val(text[4])
            last == Len(text) = 4
            rest == Base64DecodeGroups(SubSeq(text, 5, Len(text)))
        IN  IF v1 < 0 \/ v2 < 0 THEN Err("Base64 decode failed")
            ELSE IF v3 >= 0 /\ v4 >= 0 THEN
                LET n == v1 * 262144 + v2 * 4096 + v3 * 64 + v4
                IN  IF rest.ok
                    THEN Ok(<<n \div 65536, (n \div 256) % 256, n % 256>> \o rest.val)
                    ELSE rest
            ELSE IF last /\ v3 >= 0 /\ text[4] = B64Pad /\ v3 % 4 = 0 THEN
                LET n == v1 * 262144 + v2 * 4096 + v3 * 64
                IN  Ok(<<n \div 65536, (n \div 256) % 256>>)
            ELSE IF last /\ text[3] = B64Pad /\ text[4] = B64Pad /\ v2 % 16 = 0 THEN
                Ok(<<(v1 * 262144 + v2 * 4096) \div 65536>>)
            ELSE Err("Base64 decode failed")

\* general_purpose::STANDARD.decode: padding required, canonical only
Base64Decode(text) ==
    IF Len(text) % 4 # 0 THEN Err("Base64 decode failed")
    ELSE Base64DecodeGroups(text)

\* String::from_utf8's validity test
RECURSIVE IsUtf8(_)
IsUtf8(bytes) ==
    IF Len(bytes) = 0 THEN TRUE
    ELSE
        LET b1 == bytes[1]
            n == Len(bytes)
            Cont(i) == bytes[i] >= 128 /\ bytes[i] <= 191
            After(k) == IsUtf8(SubSeq(bytes, k + 1, n))
        IN  IF b1 < 128 THEN After(1)
            ELSE IF b1 >= 194 /\ b1 <= 223 THEN n >= 2 /\ Cont(2) /\ After(2)
            ELSE IF b1 = 224 THEN
                n >= 3 /\ bytes[2] >= 160 /\ bytes[2] <= 191 /\ Cont(3) /\ After(3)
            ELSE IF b1 = 237 THEN
                n >= 3 /\ bytes[2] >= 128 /\ bytes[2] <= 159 /\ Cont(3) /\ After(3)
            ELSE IF b1 >= 225 /\ b1 <= 239 THEN n >= 3 /\ Cont(2) /\ Cont(3) /\ After(3)
            ELSE IF b1 = 240 THEN
                n >= 4 /\ bytes[2] >= 144 /\ bytes[2] <= 191 /\ Cont(3) /\ Cont(4) /\ After(4)
            ELSE IF b1 >= 241 /\ b1 <= 243 THEN
                n >= 4 /\ Cont(2) /\ Cont(3) /\ Cont(4) /\ After(4)
            ELSE IF b1 = 244 THEN
                n >= 4 /\ bytes[2] >= 128 /\ bytes[2] <= 143 /\ Cont(3) /\ Cont(4) /\ After(4)
            ELSE FALSE

RECURSIVE SumBytes(_)
SumBytes(bytes) == IF Len(bytes) = 0 THEN 0 ELSE bytes[1] + SumBytes(Tail(bytes))

\* Sha256::digest, abstracted to a small digest of the bytes
RECURSIVE Digest(_)
Digest(bytes) ==
    IF Len(bytes) = 0 THEN 7
    ELSE (Digest(SubSeq(bytes, 1, Len(bytes) - 1)) * 31 + bytes[Len(bytes)]) % 251

\* A plausible slip: the key does not depend on the device.
get_encryption_key_Fixed(uid) == Digest(DefaultDeviceId)

\* get_encryption_key: uid is the outcome of machine_uid::get(), None on error
get_encryption_key(uid) == Digest(UnwrapOr(uid, DefaultDeviceId))

\* the AES-GCM authentication tag is 16 bytes
TagLen == 16

\* AES-256-GCM abstracted: a keyed, nonce-dependent byte stream added to the
\* plaintext (CTR), followed by a keyed tag over the ciphertext (GHASH).
KeyStream(key, nonce, i) == (key * 13 + i * 29 + SumBytes(nonce)) % 256

RECURSIVE WeightedSum(_, _)
WeightedSum(bytes, j) ==
    IF Len(bytes) = 0 THEN 0
    ELSE bytes[Len(bytes)] * (Len(bytes) + j)
            + WeightedSum(SubSeq(bytes, 1, Len(bytes) - 1), j)

AeadTag(key, nonce, body) ==
    [j \in 1..TagLen |->
        (key * j + SumBytes(nonce) + Len(body) * 3 + WeightedSum(body, j)) % 256]

\* cipher.encrypt(nonce, plaintext): ciphertext || tag
AeadEncrypt(key, nonce, plain) ==
    LET body == [i \in 1..Len(plain) |-> (plain[i] + KeyStream(key, nonce, i)) % 256]
    IN  body \o AeadTag(key, nonce, body)

\* cipher.decrypt(nonce, ciphertext): the tag is verified before anything is
\* returned
AeadDecrypt(key, nonce, ct) ==
    IF Len(ct) < TagLen THEN Err("Decryption failed")
    ELSE
        LET body == SubSeq(ct, 1, Len(ct) - TagLen)
            tag == SubSeq(ct, Len(ct) - TagLen + 1, Len(ct))
        IN  IF tag # AeadTag(key, nonce, body) THEN Err("Decryption failed")
            ELSE Ok([i \in 1..Len(body) |->
                        (body[i] + 256 - KeyStream(key, nonce, i)) % 256])

\* encrypt_string
encrypt_string(uid, password) ==
    LET key == get_encryption_key(uid)
        ciphertext == AeadEncrypt(key, FIXED_NONCE, password)
        base64_ciphertext == Base64Encode(ciphertext)
    IN  Ok(ENCRYPTED_PREFIX \o base64_ciphertext)

\* decrypt_string_internal: pure base64 ciphertext, no prefix
decrypt_string_internal(uid, encrypted_base64) ==
    LET key == get_encryption_key(uid)
        ciphertext == Base64Decode(encrypted_base64)
        plaintext == AeadDecrypt(key, FIXED_NONCE, ciphertext.val)
    IN  IF ~ciphertext.ok THEN Err("Base64 decode failed")
        ELSE IF ~plaintext.ok THEN Err("Decryption failed")
        ELSE IF ~IsUtf8(plaintext.val) THEN Err("UTF-8 conversion failed")
        ELSE Ok(plaintext.val)

StripPrefix(text) == SubSeq(text, Len(ENCRYPTED_PREFIX) + 1, Len(text))

\* A plausible slip: the marker is not stripped before decoding.
decrypt_string_NoStrip(uid, encrypted) == decrypt_string_internal(uid, encrypted)

\* decrypt_string
decrypt_string(uid, encrypted) ==
    IF StartsWith(encrypted, ENCRYPTED_PREFIX)
    THEN decrypt_string_internal(uid, StripPrefix(encrypted))
    ELSE decrypt_string_internal(uid, encrypted)

\* A plausible slip: the marker check is missing, every value is encrypted.
serialize_password_AlwaysEncrypt(uid, password) == encrypt_string(uid, password)

\* serialize_password: the string handed to serializer.serialize_str
serialize_password(uid, password) ==
    IF StartsWith(password, ENCRYPTED_PREFIX) THEN Ok(password)
    ELSE encrypt_string(uid, password)

\* A plausible slip: a failed legacy decryption is reported, not swallowed.
deserialize_password_Strict(uid, raw) ==
    IF Len(raw) = 0 THEN Ok(raw)
    ELSE decrypt_string(uid, raw)

\* deserialize_password
deserialize_password(uid, raw) ==
    IF Len(raw) = 0 THEN Ok(raw)
    ELSE IF StartsWith(raw, ENCRYPTED_PREFIX) THEN
        LET r == decrypt_string_internal(uid, StripPrefix(raw))
        IN  IF r.ok THEN Ok(r.val) ELSE Ok(raw)
    ELSE
        LET r == decrypt_string_internal(uid, raw)
        IN  IF r.ok THEN Ok(r.val) ELSE Ok(raw)

\* ---- the inputs
MaxSecretLen == 2

\* 'a', 'Q', '=', and the two bytes of U+00E9
SecretAlphabet == {97, 81, 61, 195, 169}

RECURSIVE BytesUpTo(_)
BytesUpTo(n) ==
    IF n = 0 THEN {<<>>}
    ELSE BytesUpTo(n - 1) \cup {s \o <<c>> : s \in BytesUpTo(n - 1), c \in SecretAlphabet}

\* "a" and "QQ==" (base64 of one byte)
StrA == <<97>>
StrQQ == <<81, 81, 61, 61>>

\* the legacy format: base64 of the ciphertext, no marker
\* (test_legacy_compatibility)
LegacyForm(uid, plain) ==
    Base64Encode(AeadEncrypt(get_encryption_key(uid), FIXED_NONCE, plain))

\* values without the marker: short UTF-8 texts, a base64 text that is no
\* ciphertext, and a text that is a legacy ciphertext
PlainSecrets(uid) ==
    {s \in BytesUpTo(MaxSecretLen) : IsUtf8(s)} \cup {StrQQ, LegacyForm(uid, StrA)}

\* values that begin with the marker: the marker alone, the marker before
\* text that is no ciphertext, and a genuine marked ciphertext
MarkedSecrets(uid) ==
    {ENCRYPTED_PREFIX \o s : s \in {<<>>, StrA, StrQQ}} \cup {encrypt_string(uid, StrA).val}

\* byte strings that are not UTF-8: only a foreign writer of the legacy
\* format can have encrypted them
RawSecrets == {<<255>>, <<195>>}

\* "m1", a device identifier
DeviceId == <<109, 49>>

InitCipher ==
    /\ machine_uid \in {Some(DeviceId), None}
    /\ secret \in PlainSecrets(machine_uid) \cup MarkedSecrets(machine_uid) \cup RawSecrets
    /\ persisted = None
    /\ wrote = <<>>
    /\ prev = None
    /\ loaded = None
    /\ readBy = ""
    /\ pool = <<>>
    /\ target_model = ""
    /\ now = 0
    /\ filtered = <<>>
    /\ sorted = <<>>
    /\ selPc = "idle"
    /\ tierLabel = None
    /\ tierOut = None
    /\ home_dir = None
    /\ index_exists = <<FALSE, FALSE>>
    /\ impPc = "idle"
    /\ idx = 0
    /\ todo = 0
    /\ found_index = FALSE
    /\ imported_accounts = <<>>
    /\ accounts = {}
    /\ impResult = None
    /\ trace = <<>>
    /\ db = [exists |-> FALSE, opens |-> FALSE, new |-> None, old |-> None]
    /\ extracted = None
    /\ queried = <<>>
    /\ derived = <<>>

Written(op, text) ==
    /\ persisted' = Some(text)
    /\ wrote' = Append(wrote, op)
    /\ UNCHANGED <<machine_uid, secret, loaded, readBy, selVars, tierVars,
                   procVars, importVars, extractVars>>

\* encrypt_string(&secret)
EncryptString ==
    /\ wrote = <<>>
    /\ IsUtf8(secret)
    /\ Written("encrypt_string", encrypt_string(machine_uid, secret).val)
    /\ UNCHANGED prev

\* #[serde(serialize_with = "serialize_password")] on a write of the value
SerializePassword ==
    /\ wrote = <<>>
    /\ IsUtf8(secret)
    /\ Written("serialize_password", serialize_password(machine_uid, secret).val)
    /\ UNCHANGED prev

\* the writer of the legacy format (test_legacy_compatibility)
LegacyEncrypt ==
    /\ wrote = <<>>
    /\ Written("legacy", LegacyForm(machine_uid, secret))
    /\ UNCHANGED prev

\* a value that was never encrypted: plain text typed into the stored file
StorePlain ==
    /\ wrote = <<>>
    /\ IsUtf8(secret)
    /\ Written("plain", secret)
    /\ UNCHANGED prev

\* the stored text is damaged in one place (or was written under another
\* key): one byte is replaced by 'A', or by 'B' where it was 'A'
Corrupt ==
    /\ Len(wrote) = 1
    /\ loaded = None
    /\ \E i \in 1..Len(Unwrap(persisted)) :
          LET old == Unwrap(persisted)
              new == [old EXCEPT ![i] = IF old[i] = 65 THEN 66 ELSE 65]
          IN  /\ IsUtf8(new)
              /\ Written("corrupt", new)
    /\ UNCHANGED prev

\* the stored string is read as it is and written again through
\* serialize_password (a partial update)
ReSerialize ==
    /\ wrote # <<>>
    /\ loaded = None
    /\ wrote[Len(wrote)] # "reserialize"
    /\ prev' = persisted
    /\ Written("reserialize", serialize_password(machine_uid, Unwrap(persisted)).val)

Read(op, result) ==
    /\ wrote # <<>>
    /\ loaded = None
    /\ loaded' = Some(result)
    /\ readBy' = op
    /\ UNCHANGED <<machine_uid, secret, persisted, wrote, prev, selVars, tierVars,
                   procVars, importVars, extractVars>>

\* decrypt_string(&persisted)
DecryptString == Read("decrypt_string", decrypt_string(machine_uid, Unwrap(persisted)))

\* #[serde(deserialize_with = "deserialize_password")] on a read of the value
DeserializePassword ==
    Read("deserialize_password", deserialize_password(machine_uid, Unwrap(persisted)))

NextCipher ==
    \/ EncryptString
    \/ SerializePassword
    \/ LegacyEncrypt
    \/ StorePlain
    \/ Corrupt
    \/ ReSerialize
    \/ DecryptString
    \/ DeserializePassword

SpecCipher == InitCipher /\ [][NextCipher]_vars

(***************************************************************************)
(* Claims about the selection engine                                       *)
(***************************************************************************)
Supports(t, m) == m \in DOMAIN t.model_quotas
InSeq(x, s) == \E i \in 1..Len(s) : s[i] = x

\* C1: capability filter soundness. Every record the filter returns for the
\* target model M has M as a key of its model_quotas; a pool record that
\* lacks M is in neither the filtered nor the sorted output; a pool record
\* that has M is kept; and the output is empty when no pool record has M.
C1_CapabilityFilterSound ==
    selPc = "done" =>
        /\ \A i \in 1..Len(filtered) : Supports(filtered[i], target_model)
        /\ \A i \in 1..Len(sorted) : Supports(sorted[i], target_model)
        /\ \A j \in 1..Len(pool) :
              Supports(pool[j], target_model) <=> InSeq(pool[j], filtered)
        /\ (\A j \in 1..Len(pool) : ~Supports(pool[j], target_model))
              => filtered = <<>> /\ sorted = <<>>

\* C1 witness: a pool in which one record supports the target model and the
\* other does not, filtered down to the supporting record.
C1_Witness ==
    /\ selPc = "done"
    /\ Len(pool) = 2
    /\ Len(filtered) = 1
    /\ \E j \in 1..2 : ~Supports(pool[j], target_model)

\* C2: tier precedence. For every two eligible records whose tier priorities
\* differ, compare_tokens_for_model puts the lower numeric priority first
\* (Less), whatever their quotas and health scores and whatever the model;
\* and in the sorted output no record precedes one of a better tier.
C2_TierPrecedence ==
    selPc = "done" =>
        /\ \A i, j \in 1..Len(filtered) :
              tier_priority(filtered[i].subscription_tier)
                 < tier_priority(filtered[j].subscription_tier)
              => \A m \in TargetModels :
                    /\ compare_tokens_for_model(filtered[i], filtered[j], m) = "Less"
                    /\ compare_tokens_for_model(filtered[j], filtered[i], m) = "Greater"
        /\ \A i, j \in 1..Len(sorted) :
              i < j => tier_priority(sorted[i].subscription_tier)
                          <= tier_priority(sorted[j].subscription_tier)

\* C2 witness: the better tier comes first although the other record has the
\* higher remaining quota and the higher health score, and came first in
\* the pool.
C2_Witness ==
    /\ selPc = "done"
    /\ Len(sorted) = 2
    /\ sorted[1] = pool[2]
    /\ tier_priority(sorted[1].subscription_tier)
          < tier_priority(sorted[2].subscription_tier)
    /\ UnwrapOr(sorted[1].remaining_quota, 0) < UnwrapOr(sorted[2].remaining_quota, 0)
    /\ sorted[1].model_quotas[target_model] < sorted[2].model_quotas[target_model]
    /\ sorted[1].health_score < sorted[2].health_score

\* the remaining quota of a record for the model: its model_quotas entry,
\* the overall remaining quota only when the entry is absent
QuotaFor(t, m) ==
    IF m \in DOMAIN t.model_quotas THEN t.model_quotas[m]
    ELSE UnwrapOr(t.remaining_quota, 0)

\* C3: quota then health within a tier. Of two eligible records of equal
\* tier priority, the one with the higher remaining quota for the target
\* model sorts first, whatever their overall remaining_quota; with equal
\* tier and equal quota for the model, the higher health score sorts first.
C3_QuotaThenHealth ==
    selPc = "done" =>
        \A i, j \in 1..Len(sorted) :
            (/\ i < j
             /\ tier_priority(sorted[i].subscription_tier)
                   = tier_priority(sorted[j].subscription_tier))
            => \/ QuotaFor(sorted[i], target_model) > QuotaFor(sorted[j], target_model)
               \/ /\ QuotaFor(sorted[i], target_model) = QuotaFor(sorted[j], target_model)
                  /\ sorted[i].health_score >= sorted[j].health_score

\* C4: blocked accounts are never selected. The filter output holds no
\* record whose validation_blocked_until is in the future, and is empty
\* when every record supporting the model is blocked.
C4_BlockedNeverSelected ==
    selPc = "done" =>
        /\ \A i \in 1..Len(filtered) : filtered[i].validation_blocked_until <= now
        /\ \A i \in 1..Len(sorted) : sorted[i].validation_blocked_until <= now

\* the pool presented in another order
PermsOf(n) == {f \in [1..n -> 1..n] : \A i, j \in 1..n : f[i] = f[j] => i = j}
Permuted(s, f) == [i \in 1..Len(s) |-> s[f[i]]]

\* C5: deterministic tie-break. The comparator never leaves two distinct
\* eligible records unordered (it falls back on the account key), and the
\* sorted selection output is the same sequence for every order in which
\* the same pool records are presented.
C5_OrderIndependent ==
    selPc = "done" =>
        /\ \A i, j \in 1..Len(filtered) :
              filtered[i].account_id # filtered[j].account_id
              => compare_tokens_for_model(filtered[i], filtered[j], target_model) # "Equal"
        /\ \A f \in PermsOf(Len(pool)) :
              sort_tokens_for_model(
                  filter_tokens_by_capability(Permuted(pool, f), target_model),
                  target_model) = sorted

(***************************************************************************)
(* Claim about the tier classification                                     *)
(***************************************************************************)
\* the label holds the lower-case token tok at some offset, in any case
HasToken(label, tok) ==
    \E off \in 0..(Len(label) - Len(tok)) :
        \A k \in 1..Len(tok) :
            \/ label[off + k] = tok[k]
            \/ label[off + k] + 32 = tok[k]

ExpectedTier(label) ==
    IF Len(label) = 0 THEN 3
    ELSE IF HasToken(label[1], StrUltra) THEN 0
    ELSE IF HasToken(label[1], StrPro) THEN 1
    ELSE IF HasToken(label[1], StrFree) THEN 2
    ELSE 3

\* C6: tier classification. The priority is 0 if the label contains "ultra"
\* in any case, else 1 if it contains "pro", else 2 if it contains "free",
\* else 3; a label with several tokens gets the lowest number among them;
\* an absent or empty label gets 3.
C6_TierClassification ==
    tierOut # None =>
        /\ Unwrap(tierOut) = ExpectedTier(tierLabel)
        /\ (tierLabel = None \/ tierLabel = Some(<<>>)) => Unwrap(tierOut) = 3

\* C6 witness: "ProULTRA" holds both "pro" and "ultra", in mixed case, and
\* is classified 0.
C6_Witness ==
    /\ tierLabel = Some(<<80, 114, 111, 85, 76, 84, 82, 65>>)
    /\ tierOut = Some(0)

(***************************************************************************)
(* Claims about the credential cipher                                      *)
(***************************************************************************)
Marked(text) == StartsWith(text, ENCRYPTED_PREFIX)
LastOp == IF wrote = <<>> THEN "" ELSE wrote[Len(wrote)]

\* C7: decrypt inverts encryption in both formats. For every plaintext,
\* the empty one included, encrypt_string's output begins with "ag_enc_"
\* and decrypt_string returns the plaintext from it; the legacy text is
\* that output without the marker, and decrypt_string returns the plaintext
\* from it too.
C7_DecryptInvertsEncrypt ==
    /\ wrote = <<"encrypt_string">> =>
          /\ Marked(Unwrap(persisted))
          /\ readBy = "decrypt_string" => loaded = Some(Ok(secret))
    /\ (wrote = <<"legacy">> /\ IsUtf8(secret)) =>
          /\ ~Marked(Unwrap(persisted))
          /\ ENCRYPTED_PREFIX \o Unwrap(persisted) = encrypt_string(machine_uid, secret).val
          /\ readBy = "decrypt_string" => loaded = Some(Ok(secret))

\* C7 witness: the empty plaintext, encrypted to the marker and a non-empty
\* ciphertext, and decrypted back to the empty string.
C7_Witness ==
    /\ wrote = <<"encrypt_string">>
    /\ secret = <<>>
    /\ Marked(Unwrap(persisted))
    /\ Len(Unwrap(persisted)) > Len(ENCRYPTED_PREFIX)
    /\ readBy = "decrypt_string"
    /\ loaded = Some(Ok(<<>>))

\* the stored text has no marker and is no legacy ciphertext under the key
UnmarkedUndecryptable ==
    /\ persisted # None
    /\ ~Marked(Unwrap(persisted))
    /\ ~decrypt_string_internal(machine_uid, Unwrap(persisted)).ok

\* C8 as stated: decrypt_string returns an unmarked text that fails legacy
\* decryption unchanged, as its successful result.
C8_DecryptStringKeepsUnmarked ==
    (readBy = "decrypt_string" /\ UnmarkedUndecryptable)
        => loaded = Some(Ok(Unwrap(persisted)))

\* C8 amended: it is deserialize_password that returns an unmarked text
\* that fails legacy decryption (not base64, authentication failure, not
\* UTF-8) unchanged as its successful result; decrypt_string returns the
\* error of the failed step for the same text.
C8_DeserializeKeepsUnmarked ==
    UnmarkedUndecryptable =>
        /\ readBy = "deserialize_password" => loaded = Some(Ok(Unwrap(persisted)))
        /\ readBy = "decrypt_string" =>
              loaded = Some(decrypt_string_internal(machine_uid, Unwrap(persisted)))

\* C8 witness: a legacy ciphertext damaged in one place fails authentication
\* and deserialize_password returns the damaged text as it is.
C8_Witness ==
    /\ wrote = <<"legacy", "corrupt">>
    /\ UnmarkedUndecryptable
    /\ decrypt_string_internal(machine_uid, Unwrap(persisted)).err = "Decryption failed"
    /\ readBy = "deserialize_password"
    /\ loaded = Some(Ok(Unwrap(persisted)))

\* C9: no double encryption. serialize_password emits a value that begins
\* with the marker unchanged, so serializing the output of a serialization
\* yields that output again.
C9_NoDoubleEncryption ==
    /\ (wrote = <<"serialize_password">> /\ Marked(secret)) => persisted = Some(secret)
    /\ wrote = <<"serialize_password">> => Marked(Unwrap(persisted))
    /\ (LastOp = "reserialize" /\ Marked(Unwrap(prev))) => persisted = prev
    /\ wrote = <<"serialize_password", "reserialize">> => persisted = prev

\* C9 witness: a value without the marker, serialized (encrypted) and then
\* serialized again with no change.
C9_Witness ==
    /\ wrote = <<"serialize_password", "reserialize">>
    /\ ~Marked(secret)
    /\ Marked(Unwrap(persisted))
    /\ persisted = prev

\* C10: secrets are never persisted in plaintext. For every value s handed
\* to serialize_password the written string is the marker followed by the
\* encryption of s and is never s itself, and deserialize_password returns
\* s from it, also for an s that begins with the marker.
C10_NeverPlaintext ==
    wrote = <<"serialize_password">> =>
        /\ persisted = Some(ENCRYPTED_PREFIX \o LegacyForm(machine_uid, secret))
        /\ persisted # Some(secret)
        /\ readBy = "deserialize_password" => loaded = Some(Ok(secret))

(***************************************************************************)
(* Binary field extractor (utils/protobuf.rs), after the design document:  *)
(* varint tags, field number = tag >> 3, wire type = tag & 7.  Offsets are *)
(* 1-based here.                                                           *)
(***************************************************************************)
\* read_varint: the value and the offset after it
RECURSIVE read_varint_from(_, _, _, _)
read_varint_from(data, pos, shift, acc) ==
    IF pos > Len(data) THEN Err("incomplete data")
    ELSE
        LET v == acc + (data[pos] % 128) * (2 ^ shift)
        IN  IF data[pos] < 128 THEN Ok(<<v, pos + 1>>)
            ELSE read_varint_from(data, pos + 1, shift + 7, v)

read_varint(data, pos) == read_varint_from(data, pos, 0, 0)

\* find_field(data, target_field): Result<Option<Vec<u8>>, String>, the
\* payload of the first length-delimited top-level field with that number
RECURSIVE find_field_from(_, _, _)
find_field_from(data, pos, target_field) ==
    IF pos > Len(data) THEN Ok(None)
    ELSE
        LET tag == read_varint(data, pos)
        IN  IF ~tag.ok THEN Err(tag.err)
            ELSE
                LET field_num == tag.val[1] \div 8
                    wire_type == tag.val[1] % 8
                    at == tag.val[2]
                    num == read_varint(data, at)
                IN  IF wire_type = 0 THEN
                        IF ~num.ok THEN Err(num.err)
                        ELSE find_field_from(data, num.val[2], target_field)
                    ELSE IF wire_type = 1 THEN find_field_from(data, at + 8, target_field)
                    ELSE IF wire_type = 5 THEN find_field_from(data, at + 4, target_field)
                    ELSE IF wire_type = 2 THEN
                        IF ~num.ok THEN Err(num.err)
                        ELSE IF num.val[2] + num.val[1] > Len(data) + 1
                        THEN Err("length exceeds remaining data")
                        ELSE IF field_num = target_field
                        THEN Ok(Some(SubSeq(data, num.val[2], num.val[2] + num.val[1] - 1)))
                        ELSE find_field_from(data, num.val[2] + num.val[1], target_field)
                    ELSE Err("unknown wire type")

find_field(data, target_field) == find_field_from(data, 1, target_field)

\* the encoders that produced the stored blobs: a length-delimited field and
\* a varint field (field numbers below 16, payloads below 128 bytes)
LenField(n, payload) == <<n * 8 + 2, Len(payload)>> \o payload
VarintField(n, v) == <<n * 8, v>>

(***************************************************************************)
(* Legacy import (modules/migration.rs, import_from_v1)                    *)
(***************************************************************************)
\* "Unknown"
StrUnknown == <<85, 110, 107, 110, 111, 119, 110>>
\* "imported_access_token"
ImportedAccessToken ==
    <<105, 109, 112, 111, 114, 116, 101, 100, 95, 97, 99, 99, 101, 115, 115,
      95, 116, 111, 107, 101, 110>>

\* serde_json::Value, as far as the import looks into one: a string or
\* something else (null, a number, ...)
JNull == [isStr |-> FALSE, s |-> <<>>]
JStr(s) == [isStr |-> TRUE, s |-> s]
\* Option<&Value>::and_then(|v| v.as_str())
as_str(v) == IF Len(v) = 1 /\ v[1].isStr THEN Some(v[1].s) ELSE None

\* format 2: backup_json.get("token") -> .get("refresh_token") -> as_str
direct_refresh_token(backup_json) ==
    IF Len(backup_json.token) = 1
    THEN as_str(backup_json.token[1].refresh_token)
    ELSE None

\* format 1: "jetskiStateSync.agentManagerInitState" -> base64 -> field 6 ->
\* field 3 -> UTF-8; calls lists what was invoked on the way
blob_refresh_token(backup_json) ==
    LET state_b64 == as_str(backup_json.state)
        blob == Base64Decode(Unwrap(state_b64))
        oauth_data == find_field(blob.val, 6)
        refresh_bytes == find_field(Unwrap(oauth_data.val), 3)
    IN  IF state_b64 = None THEN [token |-> None, calls |-> <<>>]
        ELSE IF ~blob.ok THEN [token |-> None, calls |-> <<"base64_decode">>]
        ELSE IF ~(oauth_data.ok /\ oauth_data.val # None)
        THEN [token |-> None, calls |-> <<"base64_decode", "find_field">>]
        ELSE IF ~(refresh_bytes.ok /\ refresh_bytes.val # None)
        THEN [token |-> None, calls |-> <<"base64_decode", "find_field", "find_field">>]
        ELSE IF ~IsUtf8(Unwrap(refresh_bytes.val))
        THEN [token |-> None, calls |-> <<"base64_decode", "find_field", "find_field">>]
        ELSE [token |-> refresh_bytes.val,
              calls |-> <<"base64_decode", "find_field", "find_field">>]

\* the same with the two formats tried the other way round
legacy_refresh_token_BlobFirst(backup_json) ==
    LET b == blob_refresh_token(backup_json)
    IN  IF b.token # None THEN b
        ELSE [token |-> direct_refresh_token(backup_json), calls |-> b.calls]

\* refresh_token_opt of one parsed backup file
legacy_refresh_token(backup_json) ==
    IF direct_refresh_token(backup_json) # None
    THEN [token |-> direct_refresh_token(backup_json), calls |-> <<>>]
    ELSE blob_refresh_token(backup_json)

\* the same with the sentinel on every failed lookup
resolve_account_AlwaysSentinel(email_placeholder, refresh, user_info) ==
    IF refresh.ok /\ user_info.ok
    THEN [email |-> user_info.val,
          access_token |-> refresh.val.access_token,
          expires_in |-> refresh.val.expires_in]
    ELSE [email |-> email_placeholder,
          access_token |-> ImportedAccessToken,
          expires_in |-> 0]

\* (email, access_token, expires_in) after the two OAuth calls; user_info is
\* looked at only when the refresh succeeded
resolve_account(email_placeholder, refresh, user_info) ==
    IF refresh.ok THEN
        IF user_info.ok
        THEN [email |-> user_info.val,
              access_token |-> refresh.val.access_token,
              expires_in |-> refresh.val.expires_in]
        ELSE [email |-> email_placeholder,
              access_token |-> refresh.val.access_token,
              expires_in |-> refresh.val.expires_in]
    ELSE [email |-> email_placeholder,
          access_token |-> ImportedAccessToken,
          expires_in |-> 0]

\* TokenData::new(access_token, refresh_token, expires_in, Some(email), ..)
\* under the key it is upserted with
TokenData(resolved, refresh_token) ==
    [email |-> resolved.email,
     access_token |-> resolved.access_token,
     refresh_token |-> refresh_token,
     expires_in |-> resolved.expires_in]

\* account::upsert_account(email, None, token_data) on the pool: the record
\* addressed by the email is inserted, or takes the supplied fields
upsert_account(records, token_data) ==
    {a \in records : a.email # token_data.email} \cup {token_data}

\* backup_file_str.or(data_file_str)
target_file(acc_info) ==
    IF as_str(acc_info.backup_file) # None
    THEN as_str(acc_info.backup_file)
    ELSE as_str(acc_info.data_file)

\* the places a backup file is looked for, in the order they are tried
BackupPlaces == <<"given", "v1_dir", "backups", "accounts">>

\* backup_path after the three exists() tests: the first place that has the
\* file, None when no place has it
backup_path(present) ==
    IF \E i \in 1..Len(BackupPlaces) : BackupPlaces[i] \in present
    THEN Some(BackupPlaces[CHOOSE i \in 1..Len(BackupPlaces) :
                /\ BackupPlaces[i] \in present
                /\ \A j \in 1..(i - 1) : BackupPlaces[j] \notin present])
    ELSE None

NotCalled == Err("not called")

\* one iteration of `for (id, acc_info) in accounts_map`: what was read, what
\* was called and what was handed to upsert_account.  entry is acc_info with
\* the places its file is present at and the content of the file; refresh,
\* user_info and save_ok are the answers of the collaborators.  direct and
\* blob record what each format of the file holds, whether or not it was
\* looked at.
visit_entry(entry, refresh, user_info, save_ok) ==
    LET acc_info == entry.acc_info
        email_placeholder == UnwrapOr(as_str(acc_info.email), StrUnknown)
        skipped(why) ==
            [outcome |-> why, placeholder |-> email_placeholder, direct |-> None,
             blob |-> None, calls |-> <<>>, token |-> None, refresh_ok |-> FALSE,
             resolved |-> FALSE, account |-> None]
        rt == legacy_refresh_token(entry.file.json)
        resolved == resolve_account(email_placeholder, refresh, user_info)
    IN  IF ~acc_info.is_object THEN skipped("not_object")
        ELSE IF target_file(acc_info) = None THEN skipped("no_path")
        ELSE IF backup_path(entry.present) = None THEN skipped("not_found")
        ELSE IF entry.file.state # "json" THEN skipped(entry.file.state)
        ELSE IF rt.token = None THEN
            [skipped("no_token") EXCEPT
                !.direct = direct_refresh_token(entry.file.json),
                !.blob = blob_refresh_token(entry.file.json).token,
                !.calls = rt.calls]
        ELSE
            [outcome |-> IF save_ok THEN "saved" ELSE "save_failed",
             placeholder |-> email_placeholder,
             direct |-> direct_refresh_token(entry.file.json),
             blob |-> blob_refresh_token(entry.file.json).token,
             calls |-> rt.calls \o <<"refresh_access_token">>
                        \o (IF refresh.ok THEN <<"get_user_info">> ELSE <<>>)
                        \o <<"upsert_account">>,
             token |-> rt.token,
             refresh_ok |-> refresh.ok,
             resolved |-> refresh.ok /\ user_info.ok,
             account |-> Some(TokenData(resolved, Unwrap(rt.token)))]

\* the value import_from_v1 returns
import_result_ErrWhenEmpty(found, imported) ==
    IF ~found \/ imported = <<>> THEN Err("V1 account data file not found")
    ELSE Ok(imported)

import_result(found, imported) ==
    IF ~found THEN Err("V1 account data file not found") ELSE Ok(imported)

\* ---- the inputs
MaxEntries == 2

\* "r1", "r2": refresh tokens; "at": a live access token
Rt1 == <<114, 49>>
Rt2 == <<114, 50>>
LiveAccessToken == <<97, 116>>
LiveExpiresIn == 3600

\* the legacy blob of a refresh token, and what else may be stored under the
\* legacy key: other fields in front, no field 6, field 6 without field 3, a
\* length running past the end, a token that is not UTF-8, text that is not
\* base64
LegacyBlob(rt) == LenField(6, LenField(3, rt))

StateValues ==
    { None,
      Some(JNull),
      Some(JStr(Base64Encode(LegacyBlob(Rt1)))),
      Some(JStr(Base64Encode(VarintField(1, 5) \o LenField(2, <<120>>) \o LegacyBlob(Rt2)))),
      Some(JStr(Base64Encode(LenField(2, <<120>>)))),
      Some(JStr(Base64Encode(LenField(6, LenField(1, Rt1))))),
      Some(JStr(Base64Encode(<<50, 9, 26>>))),
      Some(JStr(Base64Encode(LegacyBlob(<<255>>)))),
      Some(JStr(<<33, 33>>)) }

TokenValues ==
    { None,
      Some([refresh_token |-> None]),
      Some([refresh_token |-> Some(JNull)]),
      Some([refresh_token |-> Some(JStr(Rt1))]) }

BackupJsons == {[token |-> t, state |-> s] : t \in TokenValues, s \in StateValues}

EmptyJson == [token |-> None, state |-> None]

BackupFiles ==
    {[state |-> "unreadable", json |-> EmptyJson],
     [state |-> "unparseable", json |-> EmptyJson]}
    \cup {[state |-> "json", json |-> j] : j \in BackupJsons}

\* "p": the file name an entry refers to
PathP == JStr(<<112>>)

AccInfos ==
    {[is_object |-> FALSE, email |-> None, backup_file |-> None, data_file |-> None]}
    \cup {[is_object |-> TRUE, email |-> em, backup_file |-> f[1], data_file |-> f[2]] :
            em \in {None, Some(JStr(EmailOf(1)))},
            f \in {<<None, None>>, <<Some(PathP), None>>, <<None, Some(PathP)>>}}

\* where the file of an entry is present
PresentAt == {{}, {"given"}, {"backups", "accounts"}}

\* an entry that is skipped before its file is read has no file to speak of
Entries ==
    {[acc_info |-> a, present |-> {}, file |-> [state |-> "unreadable", json |-> EmptyJson]] :
        a \in AccInfos}
    \cup {[acc_info |-> a, present |-> p, file |-> f] :
            a \in {x \in AccInfos : target_file(x) # None},
            p \in PresentAt \ {{}}, f \in BackupFiles}

\* oauth::refresh_access_token and oauth::get_user_info: what they answer
RefreshOutcomes ==
    {Err("refresh failed"),
     Ok([access_token |-> LiveAccessToken, expires_in |-> LiveExpiresIn])}
UserInfoOutcomes == {Err("user info failed"), Ok(EmailOf(1)), Ok(EmailOf(2))}

\* the collaborators are asked only about an entry that gave a refresh token
HasRefreshToken(entry) ==
    visit_entry(entry, NotCalled, NotCalled, FALSE).outcome = "save_failed"

\* index_files
IndexFiles == <<"antigravity_accounts.json", "accounts.json">>

InitImport ==
    /\ home_dir \in {None, Some("/home/u")}
    /\ index_exists \in {f \in [1..Len(IndexFiles) -> BOOLEAN] :
                            home_dir = None => \A i \in DOMAIN f : ~f[i]}
    /\ impPc = "start"
    /\ idx = 0
    /\ todo = 0
    /\ found_index = FALSE
    /\ imported_accounts = <<>>
    /\ accounts = {}
    /\ impResult = None
    /\ trace = <<>>
    /\ db = [exists |-> FALSE, opens |-> FALSE, new |-> None, old |-> None]
    /\ extracted = None
    /\ queried = <<>>
    /\ derived = <<>>
    /\ pool = <<>>
    /\ target_model = ""
    /\ now = 0
    /\ filtered = <<>>
    /\ sorted = <<>>
    /\ selPc = "idle"
    /\ tierLabel = None
    /\ tierOut = None
    /\ machine_uid = None
    /\ secret = <<>>
    /\ persisted = None
    /\ wrote = <<>>
    /\ prev = None
    /\ loaded = None
    /\ readBy = ""

ImportIdle == UNCHANGED <<selVars, tierVars, cipherVars, procVars, extractVars,
                          home_dir, index_exists>>

\* dirs::home_dir().ok_or("Failed to get home directory")?
ImportBegin ==
    /\ impPc = "start"
    /\ IF home_dir = None
       THEN /\ impResult' = Some(Err("Failed to get home directory"))
            /\ impPc' = "done"
            /\ idx' = idx
       ELSE /\ impResult' = impResult
            /\ impPc' = "files"
            /\ idx' = 1
    /\ UNCHANGED <<todo, found_index, imported_accounts, accounts, trace>>
    /\ ImportIdle

\* `for index_filename in index_files`, up to the loop over the entries:
\* a missing file is passed over; one that exists sets found_index and is
\* then unreadable, not JSON, not an object, or a mapping with some entries
\* (at the top level or under "accounts")
OpenIndex ==
    /\ impPc = "files"
    /\ idx <= Len(IndexFiles)
    /\ IF ~index_exists[idx]
       THEN /\ idx' = idx + 1
            /\ UNCHANGED <<impPc, todo, found_index>>
       ELSE /\ found_index' = TRUE
            /\ \E content \in {"unreadable", "unparseable", "not_object", "direct", "accounts"} :
                  IF content \in {"direct", "accounts"}
                  THEN /\ \E n \in 0..(MaxEntries - Len(trace)) : todo' = n
                       /\ impPc' = "entries"
                       /\ idx' = idx
                  ELSE /\ idx' = idx + 1
                       /\ UNCHANGED <<impPc, todo>>
    /\ UNCHANGED <<imported_accounts, accounts, impResult, trace>>
    /\ ImportIdle

\* one iteration of `for (id, acc_info) in accounts_map`
VisitEntry ==
    /\ impPc = "entries"
    /\ todo > 0
    /\ \E entry \in Entries :
       \E refresh \in IF HasRefreshToken(entry) THEN RefreshOutcomes ELSE {NotCalled} :
       \E user_info \in IF refresh.ok THEN UserInfoOutcomes ELSE {NotCalled} :
       \E save_ok \in IF HasRefreshToken(entry) THEN BOOLEAN ELSE {FALSE} :
          LET v == visit_entry(entry, refresh, user_info, save_ok)
          IN  /\ trace' = Append(trace, v)
              /\ IF v.outcome = "saved"
                 THEN /\ accounts' = upsert_account(accounts, Unwrap(v.account))
                      /\ imported_accounts' = Append(imported_accounts, Unwrap(v.account))
                 ELSE UNCHANGED <<accounts, imported_accounts>>
    /\ todo' = todo - 1
    /\ UNCHANGED <<impPc, idx, found_index, impResult>>
    /\ ImportIdle

\* the entries of this index are through: on to the next file name
CloseIndex ==
    /\ impPc = "entries"
    /\ todo = 0
    /\ impPc' = "files"
    /\ idx' = idx + 1
    /\ UNCHANGED <<todo, found_index, imported_accounts, accounts, impResult, trace>>
    /\ ImportIdle

\* after the loop: Err when no index was found, Ok(imported_accounts) otherwise
ImportReturn ==
    /\ impPc = "files"
    /\ idx > Len(IndexFiles)
    /\ impResult' = Some(import_result(found_index, imported_accounts))
    /\ impPc' = "done"
    /\ UNCHANGED <<idx, todo, found_index, imported_accounts, accounts, trace>>
    /\ ImportIdle

NextImport == ImportBegin \/ OpenIndex \/ VisitEntry \/ CloseIndex \/ ImportReturn

SpecImport == InitImport /\ [][NextImport]_vars

(***************************************************************************)
(* Claims about the legacy import                                          *)
(***************************************************************************)
InCalls(v, name) == \E i \in 1..Len(v.calls) : v.calls[i] = name

\* the accounts of the visited entries whose upsert succeeded, in order
SavedAccounts(t) ==
    LET saved == SelectSeq(t, LAMBDA v : v.outcome = "saved")
    IN  [i \in 1..Len(saved) |-> Unwrap(saved[i].account)]

SomeIndexExists == \E i \in 1..Len(IndexFiles) : index_exists[i]

\* C11: import_from_v1 returns an error exactly when none of the index file
\* names exists under the legacy directory.  Whenever one exists it returns
\* Ok, after every file name and every entry was visited, with exactly the
\* records whose upsert succeeded, whatever was skipped on the way (index
\* unreadable or unparseable, entry without a file, file missing or
\* unparseable, no refresh token, OAuth failure, upsert failure).
C11_ErrorOnlyWithoutIndex ==
    /\ impPc = "done" <=> impResult # None
    /\ impResult # None =>
          /\ Unwrap(impResult).ok <=> SomeIndexExists
          /\ Unwrap(impResult).ok =>
                /\ Unwrap(impResult).val = SavedAccounts(trace)
                /\ idx = Len(IndexFiles) + 1
                /\ todo = 0

\* an import that returned Ok with one record after an entry whose file did
\* not parse and an entry whose upsert failed
C11_Witness ==
    /\ impResult # None
    /\ Unwrap(impResult).ok
    /\ Len(trace) = 2
    /\ trace[1].outcome \in {"unparseable", "save_failed"}
    /\ trace[2].outcome = "saved"
    /\ Len(Unwrap(impResult).val) = 1

\* C12: the direct JSON field token.refresh_token is tried first: when it is
\* a string its value is the refresh token and neither the base64 decoder nor
\* the field extractor is invoked; the blob under the legacy key is decoded
\* only when the direct field gave nothing, and then its field 6 -> field 3
\* is the refresh token; an entry for which neither gives a token is passed
\* over without any OAuth call and without an upsert.
C12_DirectFieldFirst ==
    \A i \in 1..Len(trace) :
        LET v == trace[i]
        IN  v.outcome \in {"no_token", "saved", "save_failed"} =>
               /\ v.direct # None =>
                     /\ v.token = v.direct
                     /\ ~InCalls(v, "base64_decode")
                     /\ ~InCalls(v, "find_field")
               /\ v.direct = None => v.token = v.blob
               /\ (v.direct = None /\ v.blob = None) =>
                     /\ v.outcome = "no_token"
                     /\ ~InCalls(v, "refresh_access_token")
                     /\ ~InCalls(v, "get_user_info")
                     /\ ~InCalls(v, "upsert_account")
                     /\ v.account = None

\* a file holding both formats with different tokens was visited (the direct
\* one won), and so was a file holding only the legacy blob
C12_Witness ==
    /\ Len(trace) = 2
    /\ trace[1].direct # None
    /\ trace[1].blob # None
    /\ trace[1].blob # trace[1].direct
    /\ trace[1].token = trace[1].direct
    /\ trace[2].direct = None
    /\ trace[2].blob # None
    /\ trace[2].token = trace[2].blob

\* the lookup of the live identity failed for this entry: the refresh, or
\* the user-info call after it
LookupFailed(v) == v.token # None /\ ~v.resolved

\* C13, as the code has it: an entry with a refresh token is handed to
\* upsert_account whatever the OAuth calls answer, with its refresh token.
\* When the refresh fails the record is keyed by the display email of the
\* index with the sentinel access token and lifetime 0; when the refresh
\* succeeds and the user-info call fails it is keyed by the display email
\* with the live access token and its live lifetime.
C13_FallbackKeepsLiveToken ==
    \A i \in 1..Len(trace) :
        LET v == trace[i]
        IN  v.token # None =>
               /\ v.account # None
               /\ InCalls(v, "upsert_account")
               /\ Unwrap(v.account).refresh_token = Unwrap(v.token)
               /\ ~v.refresh_ok =>
                     /\ Unwrap(v.account).email = v.placeholder
                     /\ Unwrap(v.account).access_token = ImportedAccessToken
                     /\ Unwrap(v.account).expires_in = 0
               /\ (v.refresh_ok /\ ~v.resolved) =>
                     /\ Unwrap(v.account).email = v.placeholder
                     /\ Unwrap(v.account).access_token = LiveAccessToken
                     /\ Unwrap(v.account).expires_in = LiveExpiresIn

\* C13 as stated: every failed live lookup gives the display email with the
\* sentinel access token and lifetime 0
C13_FallbackAlwaysSentinel ==
    \A i \in 1..Len(trace) :
        LookupFailed(trace[i]) =>
            /\ trace[i].account # None
            /\ Unwrap(trace[i].account).refresh_token = Unwrap(trace[i].token)
            /\ Unwrap(trace[i].account).email = trace[i].placeholder
            /\ Unwrap(trace[i].account).access_token = ImportedAccessToken
            /\ Unwrap(trace[i].account).expires_in = 0

\* both failures met in one import: a failed refresh, and a failed user-info
\* call after a successful refresh, each entry saved
C13_Witness ==
    /\ Len(trace) = 2
    /\ trace[1].outcome = "saved"
    /\ trace[2].outcome = "saved"
    /\ trace[1].token # None /\ ~trace[1].refresh_ok
    /\ trace[2].token # None /\ trace[2].refresh_ok /\ ~trace[2].resolved

InPool(rt) == \E a \in accounts : a.refresh_token = rt

\* C17: after an import in which every upsert succeeded, two entries that
\* both fell back to the display email of the index (or "Unknown") and
\* carry different refresh tokens both have their refresh token in the pool.
C17_FallbackEntriesAllKept ==
    (/\ impPc = "done"
     /\ \A i \in 1..Len(trace) : trace[i].outcome # "save_failed") =>
        \A i, j \in 1..Len(trace) :
            (/\ i < j
             /\ LookupFailed(trace[i])
             /\ LookupFailed(trace[j])
             /\ trace[i].token # trace[j].token) =>
                /\ InPool(Unwrap(trace[i].token))
                /\ InPool(Unwrap(trace[j].token))

(***************************************************************************)
(* Live-format import (modules/migration.rs,                               *)
(* extract_refresh_token_from_file)                                        *)
(***************************************************************************)
NewFormatKey == "antigravityUnifiedStateSync.oauthToken"
OldFormatKey == "jetskiStateSync.agentManagerInitState"
NotFoundInEitherFormat == "Login state data not found in either format"

\* find_field(..).map_err(..)?.ok_or(missing)?
required_field(data, target_field, missing) ==
    LET f == find_field(data, target_field)
    IN  IF ~f.ok THEN Err("Protobuf parsing failed")
        ELSE IF f.val = None THEN Err(missing)
        ELSE Ok(Unwrap(f.val))

\* String::from_utf8(bytes).map_err(..)
from_utf8(bytes, why) == IF IsUtf8(bytes) THEN Ok(bytes) ELSE Err(why)

\* the new-format path: base64 -> field 1 -> field 2 -> field 1 -> UTF-8 ->
\* base64 -> field 3 -> UTF-8, the first failure returned
new_format_token(outer_b64) ==
    LET outer_blob == Base64Decode(outer_b64)
        inner1_blob == required_field(outer_blob.val, 1, "Outer Field 1 not found")
        inner2_blob == required_field(inner1_blob.val, 2, "Inner1 Field 2 not found")
        oauth_info_bytes == required_field(inner2_blob.val, 1, "Inner2 Field 1 not found")
        oauth_info_b64 == from_utf8(oauth_info_bytes.val, "OAuth Info B64 is not UTF-8")
        oauth_info_blob == Base64Decode(oauth_info_b64.val)
        refresh_bytes == required_field(oauth_info_blob.val, 3,
                                        "Refresh Token not found in OAuthInfo (Field 3)")
    IN  IF ~outer_blob.ok THEN Err("Outer Base64 decoding failed")
        ELSE IF ~inner1_blob.ok THEN inner1_blob
        ELSE IF ~inner2_blob.ok THEN inner2_blob
        ELSE IF ~oauth_info_bytes.ok THEN oauth_info_bytes
        ELSE IF ~oauth_info_b64.ok THEN oauth_info_b64
        ELSE IF ~oauth_info_blob.ok THEN Err("Inner Base64 decoding failed")
        ELSE IF ~refresh_bytes.ok THEN refresh_bytes
        ELSE from_utf8(refresh_bytes.val, "Refresh Token is not UTF-8 encoded")

\* the old-format path: base64 -> field 6 -> field 3 -> UTF-8
old_format_token(current_data) ==
    LET blob == Base64Decode(current_data)
        oauth_data == required_field(blob.val, 6, "OAuth data not found (Field 6)")
        refresh_bytes == required_field(oauth_data.val, 3,
                                        "Refresh Token not included in data (Field 3)")
    IN  IF ~blob.ok THEN Err("Base64 decoding failed")
        ELSE IF ~oauth_data.ok THEN oauth_data
        ELSE IF ~refresh_bytes.ok THEN refresh_bytes
        ELSE from_utf8(refresh_bytes.val, "Refresh Token is not UTF-8 encoded")

\* the old-format key asked first
extract_refresh_token_from_file_OldFirst(source) ==
    IF ~source.exists THEN [result |-> Err("Database file not found"), queries |-> <<>>]
    ELSE IF ~source.opens THEN [result |-> Err("Failed to open database"), queries |-> <<>>]
    ELSE IF source.old # None
    THEN [result |-> old_format_token(Unwrap(source.old)), queries |-> <<OldFormatKey>>]
    ELSE IF source.new = None
    THEN [result |-> Err(NotFoundInEitherFormat), queries |-> <<OldFormatKey, NewFormatKey>>]
    ELSE [result |-> new_format_token(Unwrap(source.new)),
          queries |-> <<OldFormatKey, NewFormatKey>>]

\* the old format tried whenever the new format gave no token
extract_refresh_token_from_file_FallBackOnError(source) ==
    IF ~source.exists THEN [result |-> Err("Database file not found"), queries |-> <<>>]
    ELSE IF ~source.opens THEN [result |-> Err("Failed to open database"), queries |-> <<>>]
    ELSE IF source.new # None /\ new_format_token(Unwrap(source.new)).ok
    THEN [result |-> new_format_token(Unwrap(source.new)), queries |-> <<NewFormatKey>>]
    ELSE IF source.old = None
    THEN [result |-> IF source.new = None THEN Err(NotFoundInEitherFormat)
                     ELSE new_format_token(Unwrap(source.new)),
          queries |-> <<NewFormatKey, OldFormatKey>>]
    ELSE [result |-> old_format_token(Unwrap(source.old)),
          queries |-> <<NewFormatKey, OldFormatKey>>]

\* extract_refresh_token_from_file(db_path): the result, and the keys of
\* ItemTable it queried, in order.  source.new / source.old is the text stored
\* under the key, None when the query gives no row (or fails otherwise: .ok()
\* and map_err treat every failure of a query alike).
extract_refresh_token_from_file(source) ==
    IF ~source.exists THEN [result |-> Err("Database file not found"), queries |-> <<>>]
    ELSE IF ~source.opens THEN [result |-> Err("Failed to open database"), queries |-> <<>>]
    ELSE IF source.new # None
    THEN [result |-> new_format_token(Unwrap(source.new)), queries |-> <<NewFormatKey>>]
    ELSE IF source.old = None
    THEN [result |-> Err(NotFoundInEitherFormat), queries |-> <<NewFormatKey, OldFormatKey>>]
    ELSE [result |-> old_format_token(Unwrap(source.old)),
          queries |-> <<NewFormatKey, OldFormatKey>>]

\* ---- the inputs
\* what the IDE stores under the new-format key for a refresh token
NewFormatValue(rt) ==
    Base64Encode(LenField(1, LenField(2, LenField(1, Base64Encode(LenField(3, rt))))))
\* ... and under the old-format key
OldFormatValue(rt) == Base64Encode(LegacyBlob(rt))

\* texts under the new-format key that are not such a value: not base64, no
\* field 1, no field 2 inside, no field 1 inside that, an inner text that is
\* not UTF-8 or not base64, no field 3, a token that is not UTF-8, a length
\* running past the end
BrokenNewValues ==
    { <<33, 33>>,
      Base64Encode(LenField(2, <<120>>)),
      Base64Encode(LenField(1, LenField(1, <<120>>))),
      Base64Encode(LenField(1, LenField(2, LenField(2, <<120>>)))),
      Base64Encode(LenField(1, LenField(2, LenField(1, <<255>>)))),
      Base64Encode(LenField(1, LenField(2, LenField(1, <<33, 33>>)))),
      Base64Encode(LenField(1, LenField(2, LenField(1, Base64Encode(LenField(6, Rt1)))))),
      Base64Encode(LenField(1, LenField(2, LenField(1, Base64Encode(LenField(3, <<255>>)))))),
      Base64Encode(<<10, 9, 18>>),
      OldFormatValue(Rt1) }

BrokenOldValues ==
    { <<33, 33>>,
      Base64Encode(LenField(2, <<120>>)),
      Base64Encode(LenField(6, LenField(1, Rt1))),
      Base64Encode(LegacyBlob(<<255>>)),
      Base64Encode(<<50, 9, 26>>) }

NewValues == {NewFormatValue(Rt1)} \cup BrokenNewValues
OldValues ==
    {OldFormatValue(Rt2),
     Base64Encode(VarintField(1, 5) \o LenField(2, <<120>>) \o LegacyBlob(Rt2))}
    \cup BrokenOldValues

Sources ==
    {[exists |-> ex, opens |-> op, new |-> n, old |-> o] :
        ex \in BOOLEAN, op \in BOOLEAN,
        n \in {None} \cup {Some(v) : v \in NewValues},
        o \in {None} \cup {Some(v) : v \in OldValues}}

InitExtract ==
    /\ db \in Sources
    /\ extracted = None
    /\ queried = <<>>
    /\ home_dir = None
    /\ index_exists = <<FALSE, FALSE>>
    /\ impPc = "idle"
    /\ idx = 0
    /\ todo = 0
    /\ found_index = FALSE
    /\ imported_accounts = <<>>
    /\ accounts = {}
    /\ impResult = None
    /\ trace = <<>>
    /\ derived = <<>>
    /\ pool = <<>>
    /\ target_model = ""
    /\ now = 0
    /\ filtered = <<>>
    /\ sorted = <<>>
    /\ selPc = "idle"
    /\ tierLabel = None
    /\ tierOut = None
    /\ machine_uid = None
    /\ secret = <<>>
    /\ persisted = None
    /\ wrote = <<>>
    /\ prev = None
    /\ loaded = None
    /\ readBy = ""

\* extract_refresh_token_from_file(&db_path)
Extract ==
    /\ extracted = None
    /\ extracted' = Some(extract_refresh_token_from_file(db).result)
    /\ queried' = extract_refresh_token_from_file(db).queries
    /\ UNCHANGED <<db, selVars, tierVars, cipherVars, procVars, importVars>>

NextExtract == Extract

SpecExtract == InitExtract /\ [][NextExtract]_vars

(***************************************************************************)
(* Claims about the live-format import                                     *)
(***************************************************************************)
Opened == db.exists /\ db.opens

\* C14: the new-format key is queried first; the old-format key is queried
\* only if the new-format key is absent, never when it is present, even if
\* its value fails to decode; the "not found in either format" failure is
\* returned exactly when (the source opened and) both keys are absent.
C14_NewFormatKeyFirst ==
    extracted # None =>
        /\ Opened => (Len(queried) >= 1 /\ queried[1] = NewFormatKey)
        /\ ~Opened => queried = <<>>
        /\ (Opened /\ db.new # None) => queried = <<NewFormatKey>>
        /\ (Opened /\ db.new = None) => queried = <<NewFormatKey, OldFormatKey>>
        /\ (/\ ~Unwrap(extracted).ok
            /\ Unwrap(extracted).err = NotFoundInEitherFormat)
              <=> (Opened /\ db.new = None /\ db.old = None)

\* a new-format value that does not decode next to a good old-format entry:
\* one query, and the failure of the new format
C14_Witness ==
    /\ extracted # None
    /\ Opened
    /\ db.new # None
    /\ Unwrap(db.new) \in BrokenNewValues
    /\ db.old = Some(OldFormatValue(Rt2))
    /\ queried = <<NewFormatKey>>
    /\ ~Unwrap(extracted).ok

\* C15 as stated: a source with a valid old-format entry always gives a
\* refresh token, whatever is under the new-format key
C15_ValidLegacyEntryAlwaysExtracted ==
    (/\ extracted # None
     /\ Opened
     /\ db.old = Some(OldFormatValue(Rt2))) => Unwrap(extracted).ok

\* C15, as the code has it: the legacy path is taken only when the
\* new-format key is absent.  Then a valid old-format entry gives its token,
\* and "not found in either format" comes only after both keys were queried.
\* When the new-format key is present its outcome is final: its token when
\* the value is well-formed, a failure when it is not, also next to a valid
\* old-format entry.
C15_LegacyPathOnlyWhenNewAbsent ==
    (extracted # None /\ Opened) =>
        /\ (db.new = None /\ db.old = Some(OldFormatValue(Rt2))) =>
              Unwrap(extracted) = Ok(Rt2)
        /\ db.new = Some(NewFormatValue(Rt1)) => Unwrap(extracted) = Ok(Rt1)
        /\ (db.new # None /\ Unwrap(db.new) \in BrokenNewValues) =>
              /\ ~Unwrap(extracted).ok
              /\ Unwrap(extracted).err # NotFoundInEitherFormat
        /\ (~Unwrap(extracted).ok /\ Unwrap(extracted).err = NotFoundInEitherFormat) =>
              queried = <<NewFormatKey, OldFormatKey>>

\* the legacy path taken and successful: no new-format key, a valid
\* old-format entry behind other fields
C15_Witness ==
    /\ extracted = Some(Ok(Rt2))
    /\ Opened
    /\ db.new = None
    /\ db.old # Some(OldFormatValue(Rt2))
    /\ queried = <<NewFormatKey, OldFormatKey>>

(***************************************************************************)
(* One process lifetime of the credential cipher (utils/crypto.rs): the    *)
(* calls of encrypt_string and decrypt_string, each of which calls         *)
(* get_encryption_key and so machine_uid::get(), whose answer may differ   *)
(* from one call to the next.                                              *)
(***************************************************************************)
MaxCalls == 3

InitProcess ==
    /\ machine_uid \in {Some(DeviceId), None}
    /\ secret \in {s \in BytesUpTo(MaxSecretLen) : IsUtf8(s)}
    /\ persisted = None
    /\ wrote = <<>>
    /\ prev = None
    /\ loaded = None
    /\ readBy = ""
    /\ derived = <<>>
    /\ home_dir = None
    /\ index_exists = <<FALSE, FALSE>>
    /\ impPc = "idle"
    /\ idx = 0
    /\ todo = 0
    /\ found_index = FALSE
    /\ imported_accounts = <<>>
    /\ accounts = {}
    /\ impResult = None
    /\ trace = <<>>
    /\ db = [exists |-> FALSE, opens |-> FALSE, new |-> None, old |-> None]
    /\ extracted = None
    /\ queried = <<>>
    /\ pool = <<>>
    /\ target_model = ""
    /\ now = 0
    /\ filtered = <<>>
    /\ sorted = <<>>
    /\ selPc = "idle"
    /\ tierLabel = None
    /\ tierOut = None

\* machine_uid::get() answers the next call differently: the lookup of the
\* device identifier starts to fail, or works again
LookupChanges ==
    /\ machine_uid' \in {Some(DeviceId), None} \ {machine_uid}
    /\ UNCHANGED <<secret, persisted, wrote, prev, loaded, readBy, derived,
                   selVars, tierVars, importVars, extractVars>>

\* encrypt_string(&secret), the result stored: let key = get_encryption_key()
ProcessEncrypt ==
    /\ Len(derived) < MaxCalls
    /\ derived' = Append(derived, get_encryption_key(machine_uid))
    /\ persisted' = Some(encrypt_string(machine_uid, secret).val)
    /\ wrote' = Append(wrote, "encrypt_string")
    /\ loaded' = None
    /\ readBy' = ""
    /\ UNCHANGED <<machine_uid, secret, prev, selVars, tierVars, importVars, extractVars>>

\* decrypt_string(&persisted): let key = get_encryption_key()
ProcessDecrypt ==
    /\ Len(derived) < MaxCalls
    /\ persisted # None
    /\ derived' = Append(derived, get_encryption_key(machine_uid))
    /\ loaded' = Some(decrypt_string(machine_uid, Unwrap(persisted)))
    /\ readBy' = "decrypt_string"
    /\ UNCHANGED <<machine_uid, secret, persisted, wrote, prev,
                   selVars, tierVars, importVars, extractVars>>

NextProcess == LookupChanges \/ ProcessEncrypt \/ ProcessDecrypt

SpecProcess == InitProcess /\ [][NextProcess]_vars

(***************************************************************************)
(* Claim about the key of one process                                      *)
(***************************************************************************)
\* C16: the key is derived once per process: every encrypt and decrypt of
\* one process lifetime uses the same key, also when the lookup of the
\* device identifier succeeds on some calls and fails on others, so that a
\* value encrypted earlier in the process is decrypted to itself later.
C16_SingleKeyPerProcess ==
    /\ \A i, j \in 1..Len(derived) : derived[i] = derived[j]
    /\ loaded # None => Unwrap(loaded) = Ok(secret)

====
